---------------------------- MODULE Spec2Model ----------------------------
(***************************************************************************)
(* Kundina: the offline sync queue (BackgroundSyncManager), the in-memory  *)
(* cache (IntelligentCache) and the diary store (useDiaryStore) as state   *)
(* machines.  Three specifications share the module: SpecSync, SpecCache   *)
(* and SpecStore; each leaves the other subsystems' variables untouched.   *)
(*                                                                         *)
(* Execution model (browser, one thread): a handler runs to its next await.*)
(* A continuation that waits only for an already-resolved promise is a     *)
(* microtask: no timer, DOM event or UI call runs before it (MicroPending).*)
(* A continuation that waits for an IndexedDB request runs at some later   *)
(* time, after any number of other handlers.                               *)
(*                                                                         *)
(* Timers of the sync manager: a setTimeout callback is armed with its     *)
(* delay and stays in `timers` until the delay has elapsed; the step in    *)
(* which it elapses runs the callback (a handler that runs between the two *)
(* moments reads neither, so it may as well run before both).  The         *)
(* setInterval callback runs at arbitrary moments.                         *)
(***************************************************************************)
EXTENDS Integers, Sequences, FiniteSets, TLC

VARIABLES
  \* ---- BackgroundSyncManager (src/src/lib/background-sync.ts) ----
  syncQueue,      \* this.syncQueue: sequence of item ids (the current array object)
  items,          \* the SyncQueueItem objects ever created, indexed by id
  isOnline,       \* this.isOnline
  syncInProgress, \* this.syncInProgress
  retryTimeouts,  \* keys of this.retryTimeouts
  timers,         \* pending setTimeout callbacks armed by scheduleRetry:
                  \* [id, delay, cur: this.retryTimeouts holds it]
  pass,           \* the position of the running processQueue call
  fs,             \* the position of the running forcSync call
  storage,        \* localStorage['kundina_sync_queue']
  now,            \* Date.now() in ms
  diaryEntries,   \* db.diaryEntries
  \* ---- history variables of the sync manager ----
  attempts,       \* per item: number of syncItem calls made for it
  armed,          \* per item: delays (ms) of the retry timers armed for it
  activePasses,   \* number of processQueue calls between their start and end
  exhausted,      \* items whose attempt failed with retryCount = maxRetries
  events,         \* number of calls and DOM events handled so far
  cleared,        \* clearQueue has returned and addToQueue was not called since
  \* ---- IntelligentCache (src/unnamed/part_003) ----
  maxSize,        \* this.maxSize
  maxItems,       \* this.maxItems
  cache,          \* this.cache: the entries [key, data, timestamp, ttl, hits, size]
                  \* in the Map's insertion order; each entry also records the
                  \* time of the set that stored it (storedAt) and the tags that
                  \* call listed (storedTags), which the program does not keep
  cacheHits,      \* this.hits
  cacheMisses,    \* this.misses
  tags,           \* this.tags: tag -> set of keys, defined on the registered tags
  setCall,        \* the position of the running set / setWithTags call
  \* ---- history variables of the cache ----
  lastCall,       \* the latest call of the cache's API and what it returned
  lastEvict,      \* the latest evictLRU call: the entries before and after it
  taggedSince,    \* per tag: keys setWithTags stored with it since its last invalidation
  ncalls,         \* number of calls of the cache's API made so far
  \* ---- useDiaryStore (src/unnamed/part_000) ----
  entries,        \* store.entries
  filteredEntries,\* store.filteredEntries
  loading,        \* store.loading
  error,          \* store.error
  currentFilters, \* store.currentFilters
  pending,        \* the transactions on db.diaryEntries that have not finished,
                  \* in the order of their creation
  lastKey,        \* the latest key '++id' has given out
  \* ---- history variables of the store ----
  started,        \* number of calls of the store's actions made so far
  overlapped,     \* an action was called while another one was running
  failures,       \* number of table operations that failed
  settled,        \* the action whose promise settled last, and how
  exported        \* what the latest exportEntries call resolved with

mgr == <<syncQueue, items, isOnline, syncInProgress, retryTimeouts, timers, storage>>
hist == <<attempts, armed, activePasses, exhausted, events, cleared>>
syncVars == <<mgr, pass, fs, hist>>

cacheLimits == <<maxSize, maxItems>>

cacheVars == <<cacheLimits, cache, cacheHits, cacheMisses, tags, setCall, lastCall, lastEvict,
              taggedSince, ncalls>>

storeVars == <<entries, filteredEntries, loading, error, currentFilters, pending,
              lastKey, started, overlapped, failures, settled, exported>>

(* what the handlers of the sync manager, of the cache and of the store leave
   alone *)
notSync == <<now, cacheVars, storeVars>>
notCache == <<syncVars, diaryEntries, storeVars, cacheLimits>>
notStore == <<syncVars, now, cacheVars>>

vars == <<syncVars, now, diaryEntries, cacheVars, storeVars>>

-----------------------------------------------------------------------------
(* Bounds of the model *)
MaxItems == 2
MaxEvents == 3
MaxEntries == 2

(* Program constants *)
MaxRetries == 3
BackoffBaseMs == 1000

-----------------------------------------------------------------------------
(* db.diaryEntries rows; a row that is not stored is NoEntry *)
NoEntry == [exists |-> FALSE]
EntryIds == 1..MaxEntries

Row(id, st, title, ver) ==
  [exists |-> TRUE, id |-> id, syncStatus |-> st, title |-> title, content |-> title,
   version |-> ver, lastSyncedAt |-> -1, updatedAt |-> 0, date |-> 0,
   isFavorite |-> FALSE]

(* the arguments addToQueue is called with; forcSync queues the 'update' items *)
ItemShapes ==
  { [type |-> "create", entryId |-> 1, hasData |-> TRUE],
    [type |-> "delete", entryId |-> 1, hasData |-> FALSE] }

(* item.data of the model's items: a payload that differs from the stored row *)
PayloadTitle == "payload"

IdlePass == [phase |-> "idle", idx |-> 0, failed |-> <<>>, outcome |-> "none",
             detached |-> FALSE, arr |-> <<>>, forced |-> FALSE]
IdleFs == [pc |-> "idle", todo |-> <<>>, ret |-> "none"]

(* True while a continuation is queued as a microtask *)
MicroPending == pass.phase = "resume" \/ fs.pc \in {"loop", "afterQueue", "return"}

(* an IndexedDB request resolves (TRUE) or rejects (FALSE) *)
RequestOutcomes == BOOLEAN

(* a call of the public API or a DOM event: the model handles MaxEvents of them *)
Event == events < MaxEvents /\ events' = events + 1

-----------------------------------------------------------------------------
(* Pure helpers *)
Pow2(n) == 2 ^ n

SetMin(S) == CHOOSE x \in S : \A y \in S : x <= y

(* JSON.stringify(this.syncQueue) *)
Serialize(q, its) == [i \in 1..Len(q) |-> [id |-> q[i], retryCount |-> its[q[i]].retryCount]]

(* saveSyncQueue: localStorage.setItem('kundina_sync_queue', ...) *)
saveSyncQueue(q, its) == storage' = Serialize(q, its)

(* the array object the for..of loop of processQueue iterates *)
IterArr(p, q) == IF p.detached THEN p.arr ELSE q

(* syncItem up to its first await: a create/update item with entryId and data
   issues db.diaryEntries.get; every other item completes at once *)
NeedsDb(it) == it.type \in {"create", "update"} /\ it.entryId # 0 /\ it.hasData

(* the loop body of processQueue entered for position i of the iterated array *)
BeginItem(p, i, q, its) ==
  [p EXCEPT !.idx = i,
            !.phase = IF NeedsDb(its[IterArr(p, q)[i]]) THEN "get" ELSE "resume",
            !.outcome = IF NeedsDb(its[IterArr(p, q)[i]]) THEN "none" ELSE "ok"]

(* scheduleRetry with the delay computed from the count before its increment *)
scheduleRetryStale(ts, id, rc) ==
  {[t EXCEPT !.cur = (t.cur /\ t.id # id)] : t \in ts}
    \cup {[id |-> id, delay |-> Pow2(rc - 1) * BackoffBaseMs, cur |-> TRUE]}

(* scheduleRetry(item): the timers after arming one more for item id, whose
   retryCount is rc; the timer the map held for id stays pending but is no
   longer reachable through the map *)
scheduleRetry(ts, id, rc) ==
  {[t EXCEPT !.cur = (t.cur /\ t.id # id)] : t \in ts}
    \cup {[id |-> id, delay |-> Pow2(rc) * BackoffBaseMs, cur |-> TRUE]}

(* lines 131-135: clearTimeout of the timer the map holds for id *)
clearRetry(ts, id) == {t \in ts : ~(t.id = id /\ t.cur)}

(* the guard of processQueue without its syncInProgress test *)
processQueueReturnsReentrant(q, online) == ~online \/ Len(q) = 0

(* the guard of processQueue, line 119 *)
processQueueReturns(q, online) == syncInProgress \/ ~online \/ Len(q) = 0

(* processQueue() called with the queue q, the items its, the attempt counts
   att and this.isOnline = online; forced: the caller is forcSync, which awaits
   the returned promise *)
processQueue(q, its, att, online, forced) ==
  IF processQueueReturns(q, online)
  THEN /\ UNCHANGED <<syncInProgress, pass, activePasses>>
       /\ attempts' = att
  ELSE /\ syncInProgress' = TRUE
       /\ pass' = BeginItem([IdlePass EXCEPT !.forced = forced], 1, q, its)
       /\ attempts' = [att EXCEPT ![q[1]] = @ + 1]
       /\ activePasses' = activePasses + 1

-----------------------------------------------------------------------------
(* BackgroundSyncManager: handlers *)

(* addToQueue(type, entryId, data), lines 92-116 *)
addToQueue(shape) ==
  LET id == Len(items) + 1
      its == Append(items, [type |-> shape.type, entryId |-> shape.entryId,
                            hasData |-> shape.hasData, retryCount |-> 0,
                            maxRetries |-> MaxRetries])
      q == Append(syncQueue, id)
  IN /\ id <= MaxItems
     /\ items' = its
     /\ syncQueue' = q
     /\ saveSyncQueue(q, its)
     /\ armed' = Append(armed, <<>>)
     /\ IF isOnline
        THEN processQueue(q, its, Append(attempts, 0), isOnline, FALSE)
        ELSE /\ UNCHANGED <<syncInProgress, pass, activePasses>>
             /\ attempts' = Append(attempts, 0)
     /\ cleared' = FALSE
     /\ UNCHANGED <<isOnline, retryTimeouts, timers, exhausted>>

AddToQueue ==
  /\ ~MicroPending
  /\ Event
  /\ \E shape \in ItemShapes : addToQueue(shape)
  /\ UNCHANGED <<fs, notSync, diaryEntries>>

(* window 'online' listener, lines 29-32 *)
Online ==
  /\ ~MicroPending
  /\ Event
  /\ isOnline' = TRUE
  /\ processQueue(syncQueue, items, attempts, TRUE, FALSE)
  /\ UNCHANGED <<syncQueue, items, retryTimeouts, timers, storage, fs, notSync,
                 diaryEntries, armed, exhausted, cleared>>

(* window 'offline' listener, lines 34-36 *)
Offline ==
  /\ ~MicroPending
  /\ Event
  /\ isOnline' = FALSE
  /\ UNCHANGED <<syncQueue, items, syncInProgress, retryTimeouts, timers, storage,
                 pass, fs, notSync, diaryEntries, attempts, armed,
                 activePasses, exhausted, cleared>>

(* document 'visibilitychange' listener, lines 48-52 *)
VisibilityChange ==
  /\ ~MicroPending
  /\ Event
  /\ \E hidden \in BOOLEAN :
       IF ~hidden /\ isOnline
       THEN processQueue(syncQueue, items, attempts, isOnline, FALSE)
       ELSE UNCHANGED <<syncInProgress, pass, attempts, activePasses>>
  /\ UNCHANGED <<syncQueue, items, isOnline, retryTimeouts, timers, storage, fs, notSync,
                 diaryEntries, armed, exhausted, cleared>>

(* the 30 s setInterval callback, lines 80-84 *)
PeriodicSync ==
  /\ ~MicroPending
  /\ IF isOnline /\ ~syncInProgress /\ Len(syncQueue) > 0
     THEN processQueue(syncQueue, items, attempts, isOnline, FALSE)
     ELSE UNCHANGED <<syncInProgress, pass, attempts, activePasses>>
  /\ UNCHANGED <<syncQueue, items, isOnline, retryTimeouts, timers, storage, fs, notSync,
                 diaryEntries, armed, exhausted, cleared, events>>

(* the delay of a timer armed by scheduleRetry elapses and its callback runs,
   lines 208-212; the timers of one item were armed one after the other with
   growing delays, so they elapse in that order *)
RetryTimer ==
  /\ ~MicroPending
  /\ \E t \in timers :
       /\ \A u \in timers : u.id = t.id => u.delay >= t.delay
       /\ timers' = timers \ {t}
  /\ IF isOnline
     THEN processQueue(syncQueue, items, attempts, isOnline, FALSE)
     ELSE UNCHANGED <<syncInProgress, pass, attempts, activePasses>>
  /\ UNCHANGED <<syncQueue, items, isOnline, retryTimeouts, storage, fs, notSync,
                 diaryEntries, armed, exhausted, cleared, events>>

(* clearQueue(), lines 263-268; a running pass keeps iterating the old array *)
ClearQueue ==
  /\ ~MicroPending
  /\ Event
  /\ syncQueue' = <<>>
  /\ saveSyncQueue(<<>>, items)
  /\ timers' = {t \in timers : ~t.cur}
  /\ retryTimeouts' = {}
  /\ cleared' = TRUE
  /\ pass' = IF pass.phase # "idle" /\ ~pass.detached
             THEN [pass EXCEPT !.detached = TRUE, !.arr = syncQueue]
             ELSE pass
  /\ UNCHANGED <<items, isOnline, syncInProgress, fs, notSync, diaryEntries,
                 attempts, armed, activePasses, exhausted>>

-----------------------------------------------------------------------------
(* BackgroundSyncManager.processQueue: the continuations of a running pass *)

CurId == IterArr(pass, syncQueue)[pass.idx]

(* syncEntry line 176 completes: db.diaryEntries.get(entryId); line 177
   returns when the row is not stored *)
GetDone ==
  /\ ~MicroPending
  /\ pass.phase = "get"
  /\ \E ok \in RequestOutcomes :
       /\ pass' = IF ~ok THEN [pass EXCEPT !.phase = "resume", !.outcome = "fail"]
                  ELSE IF diaryEntries[items[CurId].entryId].exists
                       THEN [pass EXCEPT !.phase = "update"]
                       ELSE [pass EXCEPT !.phase = "resume", !.outcome = "ok"]
  /\ UNCHANGED <<mgr, fs, notSync, diaryEntries, hist>>

(* syncEntry writing the payload as well *)
syncedRowWithPayload(row, data) ==
  [row EXCEPT !.syncStatus = "synced", !.lastSyncedAt = now, !.updatedAt = now,
              !.title = data, !.content = data, !.version = @ + 1]

(* the row written by syncEntry lines 180-184; data is item.data *)
syncedRow(row, data) ==
  [row EXCEPT !.syncStatus = "synced", !.lastSyncedAt = now, !.updatedAt = now]

(* syncEntry lines 180-184 complete: db.diaryEntries.update(entryId, {...});
   Dexie's update of a key that is no longer stored changes nothing *)
UpdateDone ==
  /\ ~MicroPending
  /\ pass.phase = "update"
  /\ LET e == items[CurId].entryId
     IN \E ok \in RequestOutcomes :
          /\ pass' = [pass EXCEPT !.phase = "resume",
                                  !.outcome = IF ok THEN "ok" ELSE "fail"]
          /\ diaryEntries' =
               IF ok /\ diaryEntries[e].exists
               THEN [diaryEntries EXCEPT ![e] = syncedRow(@, PayloadTitle)]
               ELSE diaryEntries
  /\ UNCHANGED <<mgr, fs, notSync, hist>>

(* line 139 with <= for < *)
retriesOnceMore(it) == it.retryCount <= it.maxRetries

(* line 139: the item is retried *)
retries(it) == it.retryCount < it.maxRetries

(* lines 139-146: the catch block for item id *)
failedAttempt(id) ==
  IF retries(items[id])
  THEN /\ items' = [items EXCEPT ![id].retryCount = @ + 1]
       /\ timers' = scheduleRetry(timers, id, items[id].retryCount + 1)
       /\ retryTimeouts' = retryTimeouts \cup {id}
  ELSE UNCHANGED <<items, timers, retryTimeouts>>

(* lines 131-135: the attempt of item id succeeded *)
syncedAttempt(id) ==
  /\ timers' = IF id \in retryTimeouts THEN clearRetry(timers, id) ELSE timers
  /\ retryTimeouts' = retryTimeouts \ {id}
  /\ UNCHANGED items

(* the end of a pass that wrote the queue to localStorage before replacing it *)
endPassSaveFirst(failed) ==
  /\ syncQueue' = failed
  /\ saveSyncQueue(syncQueue, items')
  /\ syncInProgress' = FALSE
  /\ pass' = IdlePass

(* lines 150-155: the end of the pass *)
endPass(failed) ==
  /\ syncQueue' = failed
  /\ saveSyncQueue(failed, items')
  /\ syncInProgress' = FALSE
  /\ pass' = IdlePass

(* the retry timers a step armed *)
Armed == {t \in timers' \ timers : t.cur}

(* lines 131-147 after `await this.syncItem(item)`, then the next iteration of
   the loop or lines 150-155 *)
Resume ==
  /\ pass.phase = "resume"
  /\ LET id == CurId
         ok == pass.outcome = "ok"
         failed == IF ~ok /\ retries(items[id]) THEN Append(pass.failed, id)
                   ELSE pass.failed
         arr == IterArr(pass, syncQueue)
     IN /\ IF ok THEN syncedAttempt(id) ELSE failedAttempt(id)
        /\ armed' = [armed EXCEPT ![id] =
                       IF Armed = {} THEN @
                       ELSE Append(@, (CHOOSE t \in Armed : TRUE).delay)]
        /\ exhausted' = IF ~ok /\ items[id].retryCount = items[id].maxRetries
                        THEN exhausted \cup {id} ELSE exhausted
        /\ IF pass.idx < Len(arr)
           THEN /\ pass' = BeginItem([pass EXCEPT !.failed = failed], pass.idx + 1,
                                     syncQueue, items')
                /\ attempts' = [attempts EXCEPT ![arr[pass.idx + 1]] = @ + 1]
                /\ UNCHANGED <<syncQueue, storage, syncInProgress, activePasses, fs>>
           ELSE /\ endPass(failed)
                /\ activePasses' = activePasses - 1
                /\ fs' = IF pass.forced THEN [fs EXCEPT !.pc = "return"] ELSE fs
                /\ UNCHANGED attempts
  /\ UNCHANGED <<isOnline, notSync, diaryEntries, events, cleared>>

-----------------------------------------------------------------------------
(* BackgroundSyncManager.forcSync and queuePendingEntries.  The 5-minute
   interval of startPeriodicSync runs queuePendingEntries alone; the model
   runs it as the first half of forcSync only *)

(* a set of entry ids as the array toArray() returns, in primary-key order *)
RECURSIVE SortedSeq(_)
SortedSeq(S) == IF S = {} THEN <<>>
                ELSE <<SetMin(S)>> \o SortedSeq(S \ {SetMin(S)})

(* lines 226-228: this.syncQueue.some(item => item.entryId === entry.id && item.type === 'update') *)
alreadyQueued(e) ==
  \E i \in 1..Len(syncQueue) :
     items[syncQueue[i]].entryId = e /\ items[syncQueue[i]].type = "update"

(* the entries of todo from the first one that is not already queued *)
RECURSIVE SkipQueued(_)
SkipQueued(todo) ==
  IF todo = <<>> THEN todo
  ELSE IF ~alreadyQueued(Head(todo)) THEN todo ELSE SkipQueued(Tail(todo))

(* forcSync(), lines 240-245 up to the await of the pending-entries query *)
ForcSync ==
  /\ ~MicroPending
  /\ Event
  /\ fs.pc = "idle"
  /\ fs' = IF ~isOnline THEN [fs EXCEPT !.ret = "false"]
           ELSE [pc |-> "query", todo |-> <<>>, ret |-> "none"]
  /\ UNCHANGED <<mgr, pass, notSync, diaryEntries, attempts, armed,
                 activePasses, exhausted, cleared>>

(* queuePendingEntries lines 219-222 complete; a rejected query is caught at
   line 234 and forcSync goes on to processQueue *)
QueryDone ==
  /\ ~MicroPending
  /\ fs.pc = "query"
  /\ \E ok \in RequestOutcomes :
       /\ fs' = IF ok
                THEN [fs EXCEPT !.pc = "loop",
                         !.todo = SortedSeq({e \in EntryIds : diaryEntries[e].exists
                                              /\ diaryEntries[e].syncStatus = "pending"})]
                ELSE [fs EXCEPT !.pc = "afterQueue"]
  /\ UNCHANGED <<mgr, pass, notSync, diaryEntries, hist>>

(* queuePendingEntries lines 224-233: the loop up to its next
   `await this.addToQueue('update', entry.id, entry)` *)
QueueLoop ==
  /\ fs.pc = "loop"
  /\ LET todo == SkipQueued(fs.todo)
     IN IF todo = <<>>
        THEN /\ fs' = [fs EXCEPT !.pc = "afterQueue", !.todo = <<>>]
             /\ UNCHANGED <<mgr, pass, hist>>
        ELSE /\ addToQueue([type |-> "update", entryId |-> Head(todo), hasData |-> TRUE])
             /\ fs' = [fs EXCEPT !.todo = Tail(todo)]
             /\ UNCHANGED events
  /\ UNCHANGED <<notSync, diaryEntries>>

(* forcSync line 246: `await this.processQueue()` *)
ForcProcess ==
  /\ fs.pc = "afterQueue"
  /\ processQueue(syncQueue, items, attempts, isOnline, TRUE)
  /\ fs' = [fs EXCEPT !.pc = IF processQueueReturns(syncQueue, isOnline)
                             THEN "return" ELSE "wait"]
  /\ UNCHANGED <<syncQueue, items, isOnline, retryTimeouts, timers, storage, notSync,
                 diaryEntries, armed, exhausted, cleared, events>>

(* forcSync line 247: return true *)
ForcReturn ==
  /\ fs.pc = "return"
  /\ fs' = [IdleFs EXCEPT !.ret = "true"]
  /\ UNCHANGED <<mgr, pass, notSync, diaryEntries, hist>>

(* OfflineConflictResolver.markAsConflict, lines 552-556: the fields the
   update writes; the remote copy kept in conflictVersion is left out *)
conflictRow(row) == [row EXCEPT !.syncStatus = "conflict", !.updatedAt = now]

(* OfflineConflictResolver.markAsConflict(localEntry, remoteEntry) while the
   sync manager runs; Dexie's update of a missing key changes nothing *)
MarkAsConflict ==
  /\ ~MicroPending
  /\ Event
  /\ \E e \in EntryIds :
       /\ diaryEntries[e].exists
       /\ diaryEntries' = [diaryEntries EXCEPT ![e] = conflictRow(@)]
  /\ UNCHANGED <<mgr, pass, fs, notSync, attempts, armed, activePasses,
                 exhausted, cleared>>

(* the diary store deletes a row while the sync manager runs:
   db.diaryEntries.delete(id) of useDiaryStore.deleteEntry *)
EntryDeleted ==
  /\ ~MicroPending
  /\ Event
  /\ \E e \in EntryIds :
       /\ diaryEntries[e].exists
       /\ diaryEntries' = [diaryEntries EXCEPT ![e] = NoEntry]
  /\ UNCHANGED <<mgr, pass, fs, notSync, attempts, armed, activePasses,
                 exhausted, cleared>>

-----------------------------------------------------------------------------
(* IntelligentCache (src/unnamed/part_003) *)

(* Bounds of the cache model: the constructor's arguments, the clock, the
   number of API calls *)
CacheMaxItems == 2
CacheMaxSize == 50
MaxNow == 3
MaxCalls == 3

(* the limits of a cache that holds more than ten entries *)
FillMaxSize == 21
FillMaxItems == 11

(* the arguments the cache is called with; the empty string is a key *)
Keys == {"", "a", "b"}
Data == {"x", "xxxxxx"}
Ttls == {1}
TagNames == {"t"}

NoCall == [op |-> "none", key |-> "", result |-> "none", age |-> -1, ttl |-> -1]
NoEvict == [called |-> FALSE, before |-> <<>>, at |-> 0, after |-> <<>>]
IdleSet == [pc |-> "idle", key |-> "", data |-> "", ttl |-> 0, tagged |-> FALSE,
            tags |-> {}]

(* calculateSize: the bytes of JSON.stringify(data) for a string of ASCII
   characters, which adds the two quotes *)
calculateSize(data) == Len(data) + 2

(* Map operations on the entries kept in insertion order *)
cacheHas(c, k) == \E i \in 1..Len(c) : c[i].key = k

cacheGet(c, k) == c[CHOOSE i \in 1..Len(c) : c[i].key = k]

cacheDelete(c, k) == SelectSeq(c, LAMBDA e : e.key # k)

(* Map.set: a key that is present keeps its position *)
cachePut(c, e) ==
  IF cacheHas(c, e.key)
  THEN [i \in 1..Len(c) |-> IF c[i].key = e.key THEN e ELSE c[i]]
  ELSE Append(c, e)

(* getStats().totalSize, lines 154-159 *)
RECURSIVE totalSize(_)
totalSize(c) == IF c = <<>> THEN 0 ELSE Head(c).size + totalSize(Tail(c))

(* shouldEvict, lines 43-46 *)
shouldEvict(c) == Len(c) >= maxItems \/ totalSize(c) >= maxSize

(* line 57: item.hits / (age / 1000 / 60) as an IEEE double: 0/0 is NaN,
   h/0 is Infinity, otherwise the quotient h/age (the constant factor 60000
   does not change the order) *)
score(item, t) ==
  LET age == t - item.timestamp
  IN IF age = 0
     THEN IF item.hits = 0 THEN [kind |-> "nan", n |-> 0, d |-> 1]
          ELSE [kind |-> "inf", n |-> 1, d |-> 0]
     ELSE [kind |-> "num", n |-> item.hits, d |-> age]

Infinity == [kind |-> "inf", n |-> 1, d |-> 0]

(* a < b on doubles: false when either is NaN *)
Less(a, b) ==
  /\ a.kind = "num"
  /\ \/ b.kind = "inf"
     \/ b.kind = "num" /\ a.n * b.d < b.n * a.d

(* the loop of evictLRU, lines 55-63, from position i on with the current
   lruKey lk and lruScore ls *)
RECURSIVE lruScan(_, _, _, _, _)
lruScan(c, t, i, lk, ls) ==
  IF i > Len(c) THEN lk
  ELSE IF Less(score(c[i], t), ls)
       THEN lruScan(c, t, i + 1, [isNull |-> FALSE, key |-> c[i].key], score(c[i], t))
       ELSE lruScan(c, t, i + 1, lk, ls)

(* line 65: if (lruKey), false for null and for the empty string *)
Truthy(lk) == ~lk.isNull /\ lk.key # ""

(* evictLRU, lines 48-68: the entries after the call made at time t *)
evictLRU(c, t) ==
  IF Len(c) = 0 THEN c
  ELSE LET lk == lruScan(c, t, 1, [isNull |-> TRUE, key |-> ""], Infinity)
       IN IF Truthy(lk) THEN cacheDelete(c, lk.key) ELSE c

(* lines 75, 115, 135 with the operands of the subtraction exchanged *)
expiredReversed(item, t) == item.timestamp - t > item.ttl

(* lines 75, 115, 135: the entry is expired at time t *)
expired(item, t) == t - item.timestamp > item.ttl

(* lines 214-219 with the tag's set replaced instead of extended *)
registerTagsOverwrite(tg, key, ts) ==
  [t \in DOMAIN tg \cup ts |-> IF t \in ts THEN {key} ELSE tg[t]]

(* setWithTags lines 214-219: key is added to the set of each tag of ts *)
registerTags(tg, key, ts) ==
  [t \in DOMAIN tg \cup ts |->
     (IF t \in DOMAIN tg THEN tg[t] ELSE {}) \cup (IF t \in ts THEN {key} ELSE {})]

(* a call of the cache's API begins, one of at most n: no set is running *)
CallOf(n) == setCall.pc = "idle" /\ ncalls < n /\ ncalls' = ncalls + 1

Call == CallOf(MaxCalls)

(* what lastCall records of a call that reports nothing about an entry *)
Called(op, key, result) ==
  [op |-> op, key |-> key, result |-> result, age |-> -1, ttl |-> -1]

(* what lastCall records of a get or has of the stored entry item *)
Looked(op, item, result) ==
  [op |-> op, key |-> item.key, result |-> result, age |-> now - item.timestamp,
   ttl |-> item.ttl]

(* set(key, data, ttl), lines 83-91, up to its eviction loop; tagged: the
   caller is setWithTags(key, data, ts, ttl), which registers the tags when
   set has returned *)
beginSet(key, data, ttl, tagged, ts) ==
  IF 10 * calculateSize(data) > maxSize
  THEN /\ tags' = IF tagged THEN registerTags(tags, key, ts) ELSE tags
       /\ UNCHANGED <<cache, setCall, taggedSince>>
  ELSE /\ setCall' = [pc |-> "evict", key |-> key, data |-> data, ttl |-> ttl,
                      tagged |-> tagged, tags |-> ts]
       /\ UNCHANGED <<cache, tags, taggedSince>>

(* set(key, data, ttl) is called with a key of K and data of D *)
setCalled(K, D) ==
  /\ \E key \in K, data \in D, ttl \in Ttls :
       /\ beginSet(key, data, ttl, FALSE, {})
       /\ lastCall' = Called("set", key, "none")
  /\ UNCHANGED <<cacheHits, cacheMisses, lastEvict, now, notCache>>

(* set(key, data, ttl) is called *)
CacheSet ==
  /\ Call
  /\ setCalled(Keys, Data)

(* a caller that stores small values under a new key with every call, as
   DiaryCache.setImage does for the images of a page (lines 263-265) *)
FillKeys == <<"k1", "k2", "k3", "k4", "k5", "k6", "k7", "k8", "k9", "k10", "k11",
              "k12">>
FillData == {""}

FillSet ==
  /\ CallOf(Len(FillKeys))
  /\ setCalled({FillKeys[ncalls + 1]}, FillData)

(* setWithTags(key, data, tags, ttl) is called, lines 211-212 *)
SetWithTags ==
  /\ Call
  /\ \E key \in Keys, data \in Data, ttl \in Ttls, ts \in SUBSET TagNames :
       /\ beginSet(key, data, ttl, TRUE, ts)
       /\ lastCall' = Called("setWithTags", key, "none")
  /\ UNCHANGED <<cacheHits, cacheMisses, lastEvict, now, notCache>>

(* one iteration of the loop of set, lines 93-95: shouldEvict() holds and
   evictLRU() is called *)
EvictLRU ==
  /\ setCall.pc = "evict"
  /\ shouldEvict(cache)
  /\ cache' = evictLRU(cache, now)
  /\ lastEvict' = [called |-> TRUE, before |-> cache, at |-> now, after |-> cache']
  /\ UNCHANGED <<cacheHits, cacheMisses, tags, setCall, lastCall, taggedSince,
                 ncalls, now, notCache>>

(* the loop of set is left: lines 97-103, then lines 214-219 of setWithTags *)
SetStore ==
  /\ setCall.pc = "evict"
  /\ ~shouldEvict(cache)
  /\ cache' = cachePut(cache, [key |-> setCall.key, data |-> setCall.data,
                               timestamp |-> now, ttl |-> setCall.ttl, hits |-> 0,
                               size |-> calculateSize(setCall.data),
                               storedAt |-> now,
                               storedTags |-> IF setCall.tagged THEN setCall.tags
                                              ELSE {}])
  /\ tags' = IF setCall.tagged THEN registerTags(tags, setCall.key, setCall.tags)
             ELSE tags
  /\ taggedSince' = [t \in TagNames |->
                       IF setCall.tagged /\ t \in setCall.tags
                       THEN taggedSince[t] \cup {setCall.key} ELSE taggedSince[t]]
  /\ setCall' = IdleSet
  /\ lastEvict' = NoEvict
  /\ UNCHANGED <<cacheHits, cacheMisses, lastCall, ncalls, now, notCache>>

(* get(key), lines 106-127 *)
Get ==
  /\ Call
  /\ \E key \in Keys :
       IF ~cacheHas(cache, key)
       THEN /\ cacheMisses' = cacheMisses + 1
            /\ lastCall' = Called("get", key, "null")
            /\ UNCHANGED <<cache, cacheHits>>
       ELSE LET item == cacheGet(cache, key)
            IN IF expired(item, now)
               THEN /\ cache' = cacheDelete(cache, key)
                    /\ cacheMisses' = cacheMisses + 1
                    /\ lastCall' = Looked("get", item, "null")
                    /\ UNCHANGED cacheHits
               ELSE /\ cache' = cachePut(cache, [item EXCEPT !.hits = @ + 1,
                                                             !.timestamp = now])
                    /\ cacheHits' = cacheHits + 1
                    /\ lastCall' = Looked("get", item, item.data)
                    /\ UNCHANGED cacheMisses
  /\ UNCHANGED <<tags, setCall, lastEvict, taggedSince, now, notCache>>

(* has(key), lines 129-141 *)
Has ==
  /\ Call
  /\ \E key \in Keys :
       IF ~cacheHas(cache, key)
       THEN /\ lastCall' = Called("has", key, "false")
            /\ UNCHANGED cache
       ELSE LET item == cacheGet(cache, key)
            IN IF expired(item, now)
               THEN /\ cache' = cacheDelete(cache, key)
                    /\ lastCall' = Looked("has", item, "false")
               ELSE /\ lastCall' = Looked("has", item, "true")
                    /\ UNCHANGED cache
  /\ UNCHANGED <<cacheHits, cacheMisses, tags, setCall, lastEvict, taggedSince, now,
                 notCache>>

(* delete(key), lines 143-145 *)
Delete ==
  /\ Call
  /\ \E key \in Keys :
       /\ cache' = cacheDelete(cache, key)
       /\ lastCall' = Called("delete", key, IF cacheHas(cache, key) THEN "true" ELSE "false")
  /\ UNCHANGED <<cacheHits, cacheMisses, tags, setCall, lastEvict, taggedSince, now,
                 notCache>>

(* clear(), lines 147-151: the tags stay registered *)
Clear ==
  /\ Call
  /\ cache' = <<>>
  /\ cacheHits' = 0
  /\ cacheMisses' = 0
  /\ lastCall' = Called("clear", "", "none")
  /\ UNCHANGED <<tags, setCall, lastEvict, taggedSince, now, notCache>>

(* invalidateByTag(tag), lines 222-228 *)
InvalidateByTag ==
  /\ Call
  /\ \E tag \in TagNames :
       /\ IF tag \in DOMAIN tags
          THEN /\ cache' = SelectSeq(cache, LAMBDA e : e.key \notin tags[tag])
               /\ tags' = [t \in DOMAIN tags \ {tag} |-> tags[t]]
          ELSE UNCHANGED <<cache, tags>>
       /\ taggedSince' = [taggedSince EXCEPT ![tag] = {}]
       /\ lastCall' = Called("invalidateByTag", tag,
                             IF cache' # cache THEN "deleted" ELSE "none")
  /\ UNCHANGED <<cacheHits, cacheMisses, setCall, lastEvict, now, notCache>>

(* cleanup(), lines 70-81, run by the 5-minute interval of the constructor *)
Cleanup ==
  /\ setCall.pc = "idle"
  /\ cache' = SelectSeq(cache, LAMBDA e : ~expired(e, now))
  /\ UNCHANGED <<cacheHits, cacheMisses, tags, setCall, lastCall, lastEvict,
                 taggedSince, ncalls, now, notCache>>

(* Date.now() advances by a millisecond, also while set runs its loop *)
Tick ==
  /\ now < MaxNow
  /\ now' = now + 1
  /\ UNCHANGED <<cacheVars, notCache>>

(* new IntelligentCache(ms, mi), lines 21-33 and 209 *)
CacheNew(ms, mi) ==
  /\ maxSize = ms
  /\ maxItems = mi
  /\ cache = <<>>
  /\ cacheHits = 0
  /\ cacheMisses = 0
  /\ tags = <<>>
  /\ setCall = IdleSet
  /\ lastCall = NoCall
  /\ lastEvict = NoEvict
  /\ taggedSince = [t \in TagNames |-> {}]
  /\ ncalls = 0

(* the cache of the model's size *)
CacheInit == CacheNew(CacheMaxSize, CacheMaxItems)

-----------------------------------------------------------------------------
(* useDiaryStore (src/unnamed/part_000) over db.diaryEntries                 *)
(*                                                                           *)
(* Every table operation of the store runs in an IndexedDB transaction of    *)
(* its own (bulkDelete: in the transaction it opens).  IndexedDB starts a    *)
(* read-write transaction when every transaction created before it on the    *)
(* table has finished, and a read-only one when every read-write transaction *)
(* created before it has finished; Dexie settles the operation's promise when*)
(* its transaction has finished.  pending holds the transactions in the      *)
(* order of their creation, one per running call of the store.  The step in  *)
(* which a transaction finishes runs the continuation that awaits it: that   *)
(* continuation is a microtask of the event that reports the result, and no  *)
(* other transaction on the table reports before it has run.                 *)

(* Bound of the store model: the number of calls of the store's actions *)
MaxStoreCalls == 2

(* error: string | null *)
Null == "null"

(* the dates and the entryData the store's actions are called with *)
Dates == {0, 1}
EntryData == [date : Dates]

(* currentFilters: {} or { dateFrom: 1 } *)
Filters == {"none", "dateFrom"}

(* filters.dateFrom of the model's filter *)
DateFrom == 1

(* applyFilters(entries, filters), lines 41-86 *)
applyFilters(es, filters) ==
  IF filters = "dateFrom" THEN SelectSeq(es, LAMBDA r : r.date >= DateFrom) ELSE es

(* the stored rows *)
Stored(table) == {table[e] : e \in {x \in EntryIds : table[x].exists}}

(* r comes before every other row of S in the reversed order of the date
   index, whose entries are ordered by date and then by primary key *)
Latest(S) ==
  CHOOSE r \in S : \A q \in S : q.date < r.date \/ (q.date = r.date /\ q.id <= r.id)

(* toArray() without the reverse() of line 98 *)
RECURSIVE byDateAscending(_)
byDateAscending(S) ==
  IF S = {} THEN <<>> ELSE Append(byDateAscending(S \ {Latest(S)}), Latest(S))

(* db.diaryEntries.orderBy('date').reverse().toArray(), line 98 *)
RECURSIVE byDateDescending(_)
byDateDescending(S) ==
  IF S = {} THEN <<>> ELSE <<Latest(S)>> \o byDateDescending(S \ {Latest(S)})

(* the key the next db.diaryEntries.add gets from '++id' *)
NextId(table, used) == used + 1

(* the table after the operation of the pending write w *)
written(table, w, used) ==
  CASE w.op = "addEntry" ->
         [table EXCEPT ![NextId(table, used)] =
            [Row(NextId(table, used), "pending", "new", 1)
               EXCEPT !.date = w.data.date, !.updatedAt = now]]
    [] w.op = "updateEntry" ->
         [e \in EntryIds |->
            IF e \in w.ids /\ table[e].exists
            THEN [table[e] EXCEPT !.date = w.data.date, !.updatedAt = now]
            ELSE table[e]]
    [] OTHER -> [e \in EntryIds |-> IF e \in w.ids THEN NoEntry ELSE table[e]]

(* the message of the catch block of each action *)
FailureMessage(op) ==
  CASE op = "fetchEntries" -> "Failed to fetch diary entries"
    [] op = "addEntry" -> "Failed to add diary entry"
    [] op = "updateEntry" -> "Failed to update diary entry"
    [] op = "deleteEntry" -> "Failed to delete diary entry"
    [] OTHER -> "Failed to delete entries"

(* transaction i of pending may start *)
CanRun(i) ==
  \A j \in 1..(i - 1) : pending[i].kind = "read" /\ pending[j].kind = "read"

NoData == [date |-> 0]

Write(op, ids, data) == [op |-> op, kind |-> "write", ids |-> ids, data |-> data]

Read(op) == [op |-> op, kind |-> "read", ids |-> {}, data |-> NoData]

RemoveTx(i) == SubSeq(pending, 1, i - 1) \o SubSeq(pending, i + 1, Len(pending))

(* an action of the store is called: set({ loading: true, error: null }) and
   the action's first table operation, tx *)
startCall(tx) ==
  /\ started < MaxStoreCalls
  /\ started' = started + 1
  /\ loading' = TRUE
  /\ error' = Null
  /\ pending' = Append(pending, tx)
  /\ overlapped' = (overlapped \/ pending # <<>>)
  /\ UNCHANGED <<entries, filteredEntries, currentFilters, lastKey, failures,
                 settled, exported, diaryEntries, notStore>>

(* fetchEntries(), lines 95-98 *)
FetchEntries == startCall(Read("fetchEntries"))

(* addEntry(entryData), lines 107-122; the table holds MaxEntries keys *)
AddEntry ==
  /\ lastKey + Cardinality({i \in 1..Len(pending) : pending[i].op = "addEntry"
                                                     /\ pending[i].kind = "write"})
       < MaxEntries
  /\ \E data \in EntryData : startCall(Write("addEntry", {}, data))

(* updateEntry(id, entryData), lines 143-149 *)
UpdateEntry ==
  \E id \in EntryIds, data \in EntryData : startCall(Write("updateEntry", {id}, data))

(* deleteEntry(id), lines 156-159 *)
DeleteEntry ==
  \E id \in EntryIds : startCall(Write("deleteEntry", {id}, NoData))

(* bulkDelete(ids), lines 186-193 *)
BulkDelete ==
  \E ids \in SUBSET EntryIds : startCall(Write("bulkDelete", ids, NoData))

(* the catch block with the lists emptied as well *)
caughtClearing(msg) ==
  /\ error' = msg
  /\ loading' = FALSE
  /\ entries' = <<>>
  /\ filteredEntries' = <<>>

(* a catch block: set({ error: msg, loading: false }) *)
caught(msg) ==
  /\ error' = msg
  /\ loading' = FALSE
  /\ UNCHANGED <<entries, filteredEntries>>

(* the transaction of a running action's write finishes.  Committed: the
   action goes on to `await get().fetchEntries()`, which sets loading and
   error and issues the query.  Aborted: the catch block runs and the promise
   of the action resolves *)
WriteDone ==
  \E i \in 1..Len(pending), ok \in RequestOutcomes :
     /\ pending[i].kind = "write"
     /\ CanRun(i)
     /\ IF ok
        THEN /\ diaryEntries' = written(diaryEntries, pending[i], lastKey)
             /\ lastKey' = IF pending[i].op = "addEntry" THEN lastKey + 1 ELSE lastKey
             /\ loading' = TRUE
             /\ error' = Null
             /\ pending' = Append(RemoveTx(i), Read(pending[i].op))
             /\ UNCHANGED <<entries, filteredEntries, failures, settled>>
        ELSE /\ caught(FailureMessage(pending[i].op))
             /\ pending' = RemoveTx(i)
             /\ failures' = failures + 1
             /\ settled' = [op |-> pending[i].op, outcome |-> "resolved"]
             /\ UNCHANGED <<diaryEntries, lastKey>>
     /\ UNCHANGED <<currentFilters, started, overlapped, exported, notStore>>

(* the query of fetchEntries finishes, lines 98-104; fetchEntries catches its
   own failure, so the action that awaited it resolves either way *)
FetchDone ==
  \E i \in 1..Len(pending), ok \in RequestOutcomes :
     /\ pending[i].kind = "read"
     /\ CanRun(i)
     /\ IF ok
        THEN /\ entries' = byDateDescending(Stored(diaryEntries))
             /\ filteredEntries' = applyFilters(entries', currentFilters)
             /\ loading' = FALSE
             /\ UNCHANGED <<error, failures>>
        ELSE /\ caught(FailureMessage("fetchEntries"))
             /\ failures' = failures + 1
     /\ pending' = RemoveTx(i)
     /\ settled' = [op |-> pending[i].op, outcome |-> "resolved"]
     /\ UNCHANGED <<currentFilters, started, overlapped, lastKey, diaryEntries,
                    exported, notStore>>

(* searchEntries(filters), lines 175-179 *)
SearchEntries ==
  /\ \E filters \in Filters :
       /\ currentFilters' = filters
       /\ filteredEntries' = applyFilters(entries, filters)
  /\ UNCHANGED <<entries, loading, error, pending, started, overlapped, lastKey,
                 failures, settled, exported, diaryEntries, notStore>>

(* clearFilters(), lines 181-184 *)
ClearFilters ==
  /\ currentFilters' = "none"
  /\ filteredEntries' = entries
  /\ UNCHANGED <<entries, loading, error, pending, started, overlapped, lastKey,
                 failures, settled, exported, diaryEntries, notStore>>

(* the formats exportEntries is called with *)
Formats == {"json", "csv", "markdown"}

NoExport == [format |-> "none", text |-> <<>>]

(* line 218: the header line of the csv export *)
CsvHeaders == <<"Date,Title,Content,Mood,Tags,Location,Weather,Word Count,Private,Favorite">>

(* one entry as the format writes it, lines 214, 221-232, 237-254: json
   writes every field, csv and markdown the fields they name *)
exportRow(format, r) ==
  CASE format = "json" -> <<r.id, r.title, r.content, r.date, r.isFavorite,
                            r.syncStatus, r.version, r.lastSyncedAt, r.updatedAt>>
    [] format = "csv" -> <<r.date, r.title, r.content, r.isFavorite>>
    [] OTHER -> <<r.title, r.date, r.content>>

(* the text of the export of the entries es, lines 212-259 *)
serialise(format, es) ==
  (IF format = "csv" THEN CsvHeaders ELSE <<>>)
    \o [i \in 1..Len(es) |-> exportRow(format, es[i])]

(* lines 210-211: the entries exportEntries writes *)
exportSource(filtered, all) == IF Len(filtered) > 0 THEN filtered ELSE all

(* exportEntries(format), lines 209-260: it awaits nothing, so the call
   reads the store and resolves in one step *)
ExportEntries ==
  /\ \E format \in Formats :
       exported' = [format |-> format,
                    text |-> serialise(format, exportSource(filteredEntries, entries))]
  /\ UNCHANGED <<entries, filteredEntries, loading, error, currentFilters, pending,
                 lastKey, started, overlapped, failures, settled, diaryEntries,
                 notStore>>

(* the store as created, lines 89-93, over a table of one entry *)
StoreInit ==
  /\ entries = <<>>
  /\ filteredEntries = <<>>
  /\ loading = FALSE
  /\ error = Null
  /\ currentFilters = "none"
  /\ pending = <<>>
  /\ lastKey = 1
  /\ started = 0
  /\ overlapped = FALSE
  /\ failures = 0
  /\ settled = [op |-> "none", outcome |-> "none"]
  /\ exported = NoExport

-----------------------------------------------------------------------------
(* Specifications *)

ManagerInit ==
  /\ syncQueue = <<>>
  /\ items = <<>>
  /\ isOnline \in BOOLEAN
  /\ syncInProgress = FALSE
  /\ retryTimeouts = {}
  /\ timers = {}
  /\ pass = IdlePass
  /\ fs = IdleFs
  /\ storage = <<>>
  /\ now = 1
  /\ diaryEntries = [e \in EntryIds |-> IF e = 1 THEN Row(1, "pending", "local", 1) ELSE NoEntry]
  /\ attempts = <<>>
  /\ armed = <<>>
  /\ activePasses = 0
  /\ exhausted = {}
  /\ events = 0
  /\ cleared = FALSE

InitSync == ManagerInit /\ CacheInit /\ StoreInit

NextSync ==
  \/ AddToQueue
  \/ Online
  \/ Offline
  \/ VisibilityChange
  \/ PeriodicSync
  \/ RetryTimer
  \/ ClearQueue
  \/ GetDone
  \/ UpdateDone
  \/ Resume
  \/ ForcSync
  \/ QueryDone
  \/ QueueLoop
  \/ ForcProcess
  \/ ForcReturn
  \/ EntryDeleted
  \/ MarkAsConflict

SpecSync == InitSync /\ [][NextSync]_vars

(* the cache alone: the sync manager stays as constructed *)
InitCache == InitSync /\ isOnline

NextCache ==
  \/ CacheSet
  \/ SetWithTags
  \/ EvictLRU
  \/ SetStore
  \/ Get
  \/ Has
  \/ Delete
  \/ Clear
  \/ InvalidateByTag
  \/ Cleanup
  \/ Tick

SpecCache == InitCache /\ [][NextCache]_vars

(* a cache of limits 21 bytes and 11 entries that is filled key by key *)
InitFill == ManagerInit /\ isOnline /\ CacheNew(FillMaxSize, FillMaxItems) /\ StoreInit

NextFill ==
  \/ FillSet
  \/ EvictLRU
  \/ SetStore
  \/ Tick

SpecFill == InitFill /\ [][NextFill]_vars

(* the store alone *)
InitStore == InitSync /\ isOnline

NextStore ==
  \/ FetchEntries
  \/ AddEntry
  \/ UpdateEntry
  \/ DeleteEntry
  \/ BulkDelete
  \/ WriteDone
  \/ FetchDone
  \/ SearchEntries
  \/ ClearFilters
  \/ ExportEntries

SpecStore == InitStore /\ [][NextStore]_vars

-----------------------------------------------------------------------------
(* Properties of the sync manager *)

Range(q) == {q[i] : i \in DOMAIN q}

Last(q) == q[Len(q)]

(* the retry timer armed at the latest failure of item i has not elapsed *)
BackoffPending(i) ==
  /\ armed[i] # <<>>
  /\ \E t \in timers' : t.id = i /\ t.delay = Last(armed[i])

(* C1: after a failed attempt of an item, the next attempt of that item begins
   only once the backoff delay armed for that failure has elapsed, whichever
   handler starts the pass *)
C1_BackoffRespected ==
  [][\A i \in DOMAIN attempts : attempts'[i] > attempts[i] => ~BackoffPending(i)]_vars

(* the delays the successive failures of one item arm, in ms *)
BackoffDelays == <<2000, 4000, 8000>>

(* the step that handles a failed attempt (the catch block of processQueue) *)
FailureHandled == pass.phase = "resume" /\ pass.outcome = "fail" /\ pass' # pass

(* C2: a failure below maxRetries increments retryCount and arms exactly one
   timer, with the delay 2^retryCount x 1000 ms of the incremented count, so an
   item's failures arm 2000, 4000, 8000 ms; a failure at maxRetries arms none *)
C2_BackoffDelays ==
  /\ [](\A i \in DOMAIN items : armed[i] = SubSeq(BackoffDelays, 1, items[i].retryCount))
  /\ [][FailureHandled =>
          LET id == CurId
              rc == items[id].retryCount
          IN IF rc < 3
             THEN /\ items'[id].retryCount = rc + 1
                  /\ Cardinality(timers') = Cardinality(timers) + 1
                  /\ armed'[id] = Append(armed[id], BackoffDelays[rc + 1])
                  /\ [id |-> id, delay |-> BackoffDelays[rc + 1], cur |-> TRUE] \in timers'
             ELSE /\ items'[id].retryCount = rc
                  /\ timers' = timers
                  /\ armed' = armed]_vars

(* an item has failed four times: three timers were armed, the fourth failure
   armed none *)
C2_Witness ==
  \E i \in DOMAIN items : i \in exhausted /\ armed[i] = BackoffDelays

(* C3: retryCount never exceeds maxRetries = 3, an item is attempted at most 4
   times, an item that failed at retryCount = maxRetries is out of the queue
   when that pass has ended and is never attempted again *)
C3_BoundedRetries ==
  /\ [](\A i \in DOMAIN items :
          /\ items[i].maxRetries = 3
          /\ items[i].retryCount <= 3
          /\ attempts[i] <= 4
          /\ (i \in exhausted /\ ~syncInProgress => i \notin Range(syncQueue)))
  /\ [][\A i \in exhausted :
          /\ attempts'[i] = attempts[i]
          /\ (i \in Range(syncQueue') => i \in Range(syncQueue))]_vars

(* an item was attempted four times, failed each time, and its pass has ended *)
C3_Witness ==
  \E i \in DOMAIN items :
     /\ i \in exhausted /\ attempts[i] = 4 /\ items[i].retryCount = 3
     /\ ~syncInProgress /\ i \notin Range(syncQueue)

(* a step of the running pass *)
PassStep == pass.phase # "idle" /\ (pass'.phase # pass.phase \/ pass'.idx # pass.idx)

(* C4: a pass writes the table only for a create/update item whose entry is
   stored, and then changes nothing but syncStatus (to 'synced'), lastSyncedAt
   and updatedAt of that entry: the payload is not written; a delete item and
   an item of a missing entry leave the table as it is *)
C4_SyncFrame ==
  [][PassStep =>
       \A e \in EntryIds :
          diaryEntries'[e] # diaryEntries[e] =>
            /\ items[CurId].type \in {"create", "update"}
            /\ items[CurId].entryId = e
            /\ diaryEntries[e].exists
            /\ diaryEntries'[e] =
                 [diaryEntries[e] EXCEPT !.syncStatus = "synced",
                                         !.lastSyncedAt = diaryEntries'[e].lastSyncedAt,
                                         !.updatedAt = diaryEntries'[e].updatedAt]]_vars

(* the pass has marked an entry synced whose queued payload differs from it *)
C4_Witness ==
  \E e \in EntryIds :
     /\ diaryEntries[e].exists
     /\ diaryEntries[e].syncStatus = "synced"
     /\ diaryEntries[e].lastSyncedAt = now
     /\ diaryEntries[e].title # PayloadTitle

(* a handler step that is not a step of the running pass *)
OtherStep == pass'.phase = pass.phase /\ pass'.idx = pass.idx

(* C10: at most one pass runs at a time; a processQueue call made while
   syncInProgress attempts no item and leaves the queue alone (the queue
   changes only by the caller's own push or by clearQueue); syncInProgress
   is false whenever no pass runs *)
C10_SinglePass ==
  /\ [](/\ activePasses \in {0, 1}
        /\ syncInProgress <=> activePasses = 1
        /\ syncInProgress <=> pass.phase # "idle")
  /\ [][syncInProgress /\ OtherStep =>
          /\ \A i \in DOMAIN attempts : attempts'[i] = attempts[i]
          /\ activePasses' = activePasses
          /\ syncInProgress'
          /\ \/ syncQueue' = syncQueue
             \/ syncQueue' = <<>> /\ pass'.detached
             \/ syncQueue' = Append(syncQueue, Len(items') ) /\ Len(items') = Len(items) + 1
                  /\ attempts'[Len(items')] = 0]_vars

(* addToQueue was called online while a pass was running: the new item is
   queued and has not been attempted *)
C10_Witness ==
  /\ syncInProgress /\ isOnline /\ events = 2 /\ Len(syncQueue) = 2
  /\ pass.idx = 1 /\ attempts[1] = 1 /\ attempts[2] = 0

(* C11: an item leaves the queue only by clearQueue or at the end of a pass
   that attempted it; the end of a pass discards no item it did not attempt *)
C11_NoItemLost ==
  [][\A i \in Range(syncQueue) \ Range(syncQueue') :
        \/ OtherStep /\ syncQueue' = <<>>
        \/ PassStep /\ i \in Range(IterArr(pass, syncQueue))]_vars

(* C12: no attempt of an item begins while isOnline is false, whether the
   pass is just starting or goes on after an 'offline' event *)
C12_NoAttemptOffline ==
  [][\A i \in DOMAIN attempts : attempts'[i] > attempts[i] => isOnline']_vars

(* C13: from the return of clearQueue to the next addToQueue call the queue
   is empty and no retry timer is pending, also when a pass was running *)
C13_ClearedStaysEmpty ==
  cleared => syncQueue = <<>> /\ timers = {}

(* C14: when forcSync resolves true no pass is in progress and no queued item
   is still waiting for its first attempt; forcSync resolves false only when
   the manager is offline *)
C14_ForcSyncCompletes ==
  [][/\ (fs.pc = "return" /\ fs'.pc = "idle")
           => /\ ~syncInProgress'
              /\ \A i \in Range(syncQueue') : attempts'[i] > 0
     /\ (fs'.ret = "false" /\ fs'.ret # fs.ret) => ~isOnline]_vars

(* C15: whenever no pass is in progress the queue persisted in localStorage
   holds the items of the in-memory queue, in the same order and with the
   same retryCount *)
C15_PersistedQueueCurrent ==
  ~syncInProgress =>
     /\ Len(storage) = Len(syncQueue)
     /\ \A k \in 1..Len(syncQueue) :
           /\ storage[k].id = syncQueue[k]
           /\ storage[k].retryCount = items[syncQueue[k]].retryCount

(* a pass has ended and left a failed item with its raised retryCount in both
   the queue and localStorage *)
C15_Witness ==
  /\ ~syncInProgress
  /\ syncQueue # <<>>
  /\ items[syncQueue[1]].retryCount > 0
  /\ storage # <<>>
  /\ storage[1].retryCount > 0

(* C16: a row in syncStatus 'conflict' keeps that status in every step of the
   sync manager; resolveConflict, the one operation allowed to change it, is
   never called in this specification *)
C16_ConflictKept ==
  [][\A e \in EntryIds :
        (/\ diaryEntries[e].exists
         /\ diaryEntries[e].syncStatus = "conflict"
         /\ diaryEntries'[e].exists)
        => diaryEntries'[e].syncStatus = "conflict"]_vars

-----------------------------------------------------------------------------
(* Properties of the cache *)

(* entry a's hits per minute are at most entry b's at time t: the quotients
   hits / (t - timestamp) compared after multiplying out the ages *)
RateLeq(a, b, t) == a.hits * (t - b.timestamp) <= b.hits * (t - a.timestamp)

(* position i of c holds the first entry of minimal hits per minute *)
FirstMinimal(c, t, i) ==
  /\ \A j \in 1..Len(c) : RateLeq(c[i], c[j], t)
  /\ \A j \in 1..(i - 1) : ~RateLeq(c[j], c[i], t)

RemoveAt(c, i) == SubSeq(c, 1, i - 1) \o SubSeq(c, i + 1, Len(c))

(* C5: an evictLRU call on a non-empty cache removes exactly one entry, the
   first one in insertion order of minimal hits per minute *)
C5_EvictsMinimum ==
  lastEvict.called /\ lastEvict.before # <<>> =>
    \E i \in 1..Len(lastEvict.before) :
       /\ lastEvict.after = RemoveAt(lastEvict.before, i)
       /\ FirstMinimal(lastEvict.before, lastEvict.at, i)

(* a step in which the cache's API is called *)
CallStep == ncalls' = ncalls + 1

(* the stored entry of key k is older than its ttl *)
Stale(k) ==
  /\ cacheHas(cache, k)
  /\ now - cacheGet(cache, k).timestamp > cacheGet(cache, k).ttl

(* C6: get and has of a key whose entry is older than its ttl report nothing:
   get returns null and counts a miss, has returns false, and the call
   deletes the entry *)
C6_ExpiredNotReported ==
  [][CallStep /\ lastCall'.op \in {"get", "has"} /\ Stale(lastCall'.key) =>
       /\ ~cacheHas(cache', lastCall'.key)
       /\ lastCall'.op = "get" =>
            /\ lastCall'.result = "null"
            /\ cacheMisses' = cacheMisses + 1
            /\ cacheHits' = cacheHits
       /\ lastCall'.op = "has" => lastCall'.result = "false"]_vars

(* get was called for an entry older than its ttl *)
C6_Witness ==
  /\ lastCall.op = "get" /\ lastCall.age > lastCall.ttl /\ lastCall.ttl >= 0
  /\ lastCall.result = "null" /\ cacheMisses > 0

(* C7: when invalidateByTag(t) has returned, no key that setWithTags stored
   with tag t since the previous invalidateByTag(t) is in the cache, and t has
   no registered keys *)
C7_TagInvalidated ==
  [][CallStep /\ lastCall'.op = "invalidateByTag" =>
       /\ \A k \in taggedSince[lastCall'.key] : ~cacheHas(cache', k)
       /\ lastCall'.key \notin DOMAIN tags']_vars

(* invalidateByTag removed a tagged entry and left another entry cached *)
C7_Witness ==
  /\ lastCall.op = "invalidateByTag" /\ lastCall.result = "deleted"
  /\ cache # <<>>

(* C17: when set or setWithTags has returned, the cache holds at most
   maxItems entries and their sizes add up to at most maxSize *)
C17_WithinLimits ==
  setCall.pc = "idle" /\ lastCall.op \in {"set", "setWithTags"} =>
     /\ Len(cache) <= maxItems
     /\ totalSize(cache) <= maxSize

(* C18: every iteration of the eviction loop of set removes an entry, so
   that the loop ends after at most as many iterations as there are entries *)
C18_EvictionProgress ==
  lastEvict.called => Len(lastEvict.after) < Len(lastEvict.before)

(* C19: get(key) returns a value only while at most ttl ms have passed since
   the set that stored it *)
C19_TtlFromSet ==
  [][CallStep /\ lastCall'.op = "get" /\ lastCall'.result # "null" =>
       LET item == cacheGet(cache, lastCall'.key)
       IN now - item.storedAt <= item.ttl]_vars

(* C20: invalidateByTag(t) deletes only entries whose current value was
   stored by a setWithTags call that listed t *)
C20_OnlyTaggedDeleted ==
  [][CallStep /\ lastCall'.op = "invalidateByTag" =>
       \A i \in 1..Len(cache) :
          ~cacheHas(cache', cache[i].key) => lastCall'.key \in cache[i].storedTags]_vars

-----------------------------------------------------------------------------
(* Properties of the store *)

(* C8: the store's actions never reject; when a table operation of an action
   fails, the action's promise resolves, error becomes a message, loading
   becomes false, and entries and filteredEntries stay as they are *)
C8_FailureCaught ==
  /\ [](settled.outcome # "rejected")
  /\ [][failures' > failures =>
          /\ error' # Null
          /\ loading' = FALSE
          /\ entries' = entries
          /\ filteredEntries' = filteredEntries
          /\ settled'.outcome = "resolved"
          /\ Len(pending') = Len(pending) - 1]_vars

(* an action other than fetchEntries failed while the store held entries *)
C8_Witness ==
  /\ failures > 0 /\ error # Null /\ ~loading
  /\ settled.op \in {"addEntry", "updateEntry", "deleteEntry", "bulkDelete"}
  /\ entries # <<>> /\ filteredEntries # <<>>

(* C9: when every started action has completed and no table operation has
   failed, store.entries holds exactly the rows of the table, each once, in
   descending order of date *)
C9_EntriesMatchTable ==
  pending = <<>> /\ started > 0 /\ failures = 0 =>
    /\ {entries[i] : i \in DOMAIN entries} = Stored(diaryEntries)
    /\ Len(entries) = Cardinality(Stored(diaryEntries))
    /\ \A i, j \in DOMAIN entries : i < j => entries[i].date >= entries[j].date

(* two overlapping actions have completed; the table holds two entries of
   different dates, one of them written by the actions *)
C9_Witness ==
  /\ pending = <<>> /\ started = 2 /\ overlapped /\ failures = 0
  /\ Len(entries) = 2 /\ entries[1].date > entries[2].date
  /\ \E i \in DOMAIN entries : entries[i].updatedAt = now

(* C21: exportEntries(format) writes exactly the entries of filteredEntries,
   in their order: no entry when the active filters match none, every entry
   when no filter is active *)
C21_ExportsFiltered ==
  [][exported' # exported =>
       /\ exported'.text = serialise(exported'.format, filteredEntries)
       /\ currentFilters = "none" =>
            exported'.text = serialise(exported'.format, entries)]_vars

=============================================================================
